---------------------------- MODULE Spec2Model ----------------------------
(***************************************************************************)
(* Mini-Git (src/mini-git/minigit.py): a content-addressed object store,   *)
(* a staging index, and a linear commit history behind a symbolic HEAD.    *)
(*                                                                         *)
(* Representation.  A Python str or bytes value is a sequence of symbols.  *)
(* A symbol is a TLA+ string naming one character ("a", "SP", "LF", "TAB", *)
(* "NUL", ...) or one UTF-8 byte ("xC3"), or it is a digest: the 40        *)
(* hexadecimal characters hashlib.sha1(...).hexdigest() returns, kept as   *)
(* one indivisible symbol.  SHA-1 is taken to be collision free: the       *)
(* digest symbol of a byte string is a one-to-one rendering of it.         *)
(***************************************************************************)
EXTENDS Integers, Sequences, FiniteSets, TLC

VARIABLES
    worktree,     \* the working tree: path -> [kind, data]
    minigit_dir,  \* whether <repo>/.minigit exists
    dirs,         \* the directories inside .minigit
    head_file,    \* .minigit/HEAD: <<>> when absent, <<text>> when present
    index_file,   \* .minigit/index: <<>> when absent, <<text>> when present
    refs,         \* the files under .minigit/refs: path -> text
    objects,      \* the files under .minigit/objects: sha -> bytes
    last,         \* the command that ran last: its arguments, locals, output
    running       \* the invocations under way, where commands run step by
                  \* step: process -> the step it is at, and its locals

vars ==
    <<worktree, minigit_dir, dirs, head_file, index_file, refs, objects, last,
      running>>

-----------------------------------------------------------------------------
(* Bounds and input sets *)

\* commits made in one run
MaxCommits == 2

\* calls of _hash_object in one run of the object-store specification
MaxStores == 2

\* the values int(time.time()) takes
Times == {12}

PathA == <<"a">>
PathB == <<"b">>
PathD == <<"d">>

\* paths whose files the user writes
FilePaths == {PathA, PathB}

\* paths given to add; PathD is a directory of the working tree
Paths == FilePaths \cup {PathD}

\* what the user writes into the files: <<path, content>>
Writes == {<<PathA, <<"1">>>>, <<PathA, <<"2">>>>, <<PathB, <<"2">>>>}

\* commit messages
Messages == {<<"m">>}

\* what the object-store specification gives _hash_object as content
Contents == {<<>>, <<"NUL">>, <<"h">>, <<"h", "NUL", "h">>, <<"e'">>, <<"xC3", "xA9">>}

\* an id too short to name an object file
ShortId == <<"a", "b">>

-----------------------------------------------------------------------------
(* Strings *)

\* characters json.dumps, str.strip and str.split treat specially
Whitespace == {"SP", "LF", "TAB", "CR"}

RECURSIVE Flatten(_)
\* the concatenation of a sequence of strings, by halves
Flatten(ss) ==
    IF ss = <<>> THEN <<>>
    ELSE IF Len(ss) = 1 THEN ss[1]
    ELSE LET h == Len(ss) \div 2
         IN  Flatten(SubSeq(ss, 1, h)) \o Flatten(SubSeq(ss, h + 1, Len(ss)))

RECURSIVE Join(_, _)
\* sep.join(ss)
Join(sep, ss) ==
    IF ss = <<>> THEN <<>>
    ELSE IF Len(ss) = 1 THEN ss[1]
    ELSE ss[1] \o sep \o Join(sep, Tail(ss))

\* s.startswith(p)
StartsWith(s, p) == Len(s) >= Len(p) /\ SubSeq(s, 1, Len(p)) = p

\* s[n:]
Drop(s, n) == SubSeq(s, n + 1, Len(s))

RECURSIVE LStrip(_)
LStrip(s) == IF s # <<>> /\ Head(s) \in Whitespace THEN LStrip(Tail(s)) ELSE s

RECURSIVE RStrip(_)
RStrip(s) ==
    IF s # <<>> /\ s[Len(s)] \in Whitespace
    THEN RStrip(SubSeq(s, 1, Len(s) - 1)) ELSE s

\* s.strip()
Strip(s) == LStrip(RStrip(s))

\* the least i >= from with s[i] = c, or 0 when there is none
IndexOf(s, c, from) ==
    LET at == {i \in from..Len(s) : s[i] = c}
    IN  IF at = {} THEN 0 ELSE CHOOSE i \in at : \A j \in at : i <= j

RECURSIVE Split(_, _)
\* s.split(c): the pieces of s between the occurrences of the character c
Split(s, c) ==
    LET i == IndexOf(s, c, 1)
    IN  IF i = 0 THEN <<s>>
        ELSE <<SubSeq(s, 1, i - 1)>> \o Split(Drop(s, i), c)

\* the greatest i <= from with s[i] = c, or 0 when there is none
LastIndexOf(s, c, from) ==
    LET at == {i \in 1..from : s[i] = c}
    IN  IF at = {} THEN 0 ELSE CHOOSE i \in at : \A j \in at : i >= j

\* s.rsplit(c, 1)
RSplit1(s, c) ==
    LET i == LastIndexOf(s, c, Len(s))
    IN  IF i = 0 THEN <<s>>
        ELSE <<SubSeq(s, 1, i - 1), Drop(s, i)>>

\* the characters of the model that are not ASCII, with their UTF-8 bytes
Utf8Table == [x \in {"e'"} |-> <<"xC3", "xA9">>]

\* s.encode('utf-8'); a string of ASCII characters is its own encoding
Utf8Encode(s) ==
    IF \A i \in 1..Len(s) : s[i] \notin DOMAIN Utf8Table THEN s
    ELSE Flatten([i \in 1..Len(s) |->
                    IF s[i] \in DOMAIN Utf8Table THEN Utf8Table[s[i]] ELSE <<s[i]>>])

\* the first bytes of the characters of Utf8Table
Utf8Leads == {Utf8Table[x][1] : x \in DOMAIN Utf8Table}

\* whether the bytes of the character x start at b[i]
Utf8At(b, i, x) ==
    /\ i >= 1
    /\ i + Len(Utf8Table[x]) - 1 <= Len(b)
    /\ SubSeq(b, i, i + Len(Utf8Table[x]) - 1) = Utf8Table[x]

\* b.decode('utf-8'), on the bytes Utf8Encode produces: two bytes at most a
\* character
Utf8Decode(b) ==
    IF \A i \in 1..Len(b) : b[i] \notin Utf8Leads THEN b
    ELSE Flatten([i \in 1..Len(b) |->
                    IF \E x \in DOMAIN Utf8Table : Utf8At(b, i, x)
                    THEN <<CHOOSE x \in DOMAIN Utf8Table : Utf8At(b, i, x)>>
                    ELSE IF \E x \in DOMAIN Utf8Table : Utf8At(b, i - 1, x)
                    THEN <<>>
                    ELSE <<b[i]>>])

\* the code point of a character, for the order sorted() puts paths in
CodePoint(c) ==
    CASE c = "TAB" -> 9
      [] c = "LF"  -> 10
      [] c = "SP"  -> 32
      [] c = "1"   -> 49
      [] c = "2"   -> 50
      [] c = "a"   -> 97
      [] c = "b"   -> 98
      [] c = "d"   -> 100
      [] c = "m"   -> 109
      [] OTHER     -> 48

RECURSIVE StrLess(_, _)
\* s < t as Python compares two str values
StrLess(s, t) ==
    IF t = <<>> THEN FALSE
    ELSE IF s = <<>> THEN TRUE
    ELSE IF CodePoint(Head(s)) # CodePoint(Head(t))
         THEN CodePoint(Head(s)) < CodePoint(Head(t))
    ELSE StrLess(Tail(s), Tail(t))


-----------------------------------------------------------------------------
(* Object store *)

\* the characters a digest is not: every other symbol is a digest
Alphabet ==
    {"SP", "LF", "TAB", "CR", "NUL", "xC3", "xA9", "e'", "\"", "\\", "{", "}",
     ":", ",", "/", "<", ">", "@", ".",
     "0", "1", "2", "3", "4", "5", "6", "7", "8", "9",
     "a", "b", "c", "d", "e", "f", "h", "i", "k", "l", "m", "n", "o", "p", "r",
     "s", "t", "u", "x", "U"}

\* the number of characters of a SHA-1 hexdigest
HexLen == 40

\* len(s)
StrLen(s) ==
    Len(s) + (HexLen - 1) * Cardinality({i \in 1..Len(s) : s[i] \notin Alphabet})

RECURSIVE Spell(_)
\* the symbols of b written one after the other, "|" between them
Spell(b) ==
    IF b = <<>> THEN ""
    ELSE IF Len(b) = 1 THEN b[1]
    ELSE LET h == Len(b) \div 2
         IN  Spell(SubSeq(b, 1, h)) \o "|" \o Spell(SubSeq(b, h + 1, Len(b)))

\* hashlib.sha1(b).hexdigest(), collision free: the digest symbol of b is b
\* spelled out between brackets
Sha1Hex(b) == <<"[" \o Spell(b) \o "]">>

KindBlob == <<"b", "l", "o", "b">>

\* KindTree of a commit that leaves obj_type of _hash_object at its default
KindDefault == <<"b", "l", "o", "b">>

KindTree == <<"t", "r", "e", "e">>
KindCommit == <<"c", "o", "m", "m", "i", "t">>
Kinds == {KindBlob, KindTree, KindCommit}

\* WriteFile that appends to a file that exists
WriteFileAppend(f, k, v) ==
    [x \in DOMAIN f \cup {k} |->
        IF x = k THEN (IF k \in DOMAIN f THEN f[k] \o v ELSE v) ELSE f[x]]

\* f with f[k] = v, k added to its domain when new: path.write_bytes(v)
WriteFile(f, k, v) == [x \in DOMAIN f \cup {k} |-> IF x = k THEN v ELSE f[x]]

\* FullContent without the type header
FullContentNoHeader(content, obj_type) == Utf8Encode(content)

\* header + content of _hash_object; bytes have no character Utf8Encode changes,
\* so it stands for "encode when the content is a str" too
FullContent(content, obj_type) ==
    Utf8Encode(obj_type \o <<"NUL">>) \o Utf8Encode(content)

\* HashObjectSha that hashes the header alone
HashObjectShaOfHeader(content, obj_type) == Sha1Hex(Utf8Encode(obj_type \o <<"NUL">>))

\* _hash_object's return value
HashObjectSha(content, obj_type) == Sha1Hex(FullContent(content, obj_type))

\* HashObjectStore of a store that returns the id and writes no file
HashObjectStoreNever(objs, content, obj_type) == objs

\* HashObjectStore of a store that keeps the object written last alone
HashObjectStoreAlone(objs, content, obj_type) ==
    WriteFile(<<>>, HashObjectSha(content, obj_type), FullContent(content, obj_type))

\* the object files after _hash_object(content, obj_type); the file
\* objects/sha[:2]/sha[2:] is keyed by sha
HashObjectStore(objs, content, obj_type) ==
    WriteFile(objs, HashObjectSha(content, obj_type), FullContent(content, obj_type))

NoObject == [status |-> "none", type |-> <<>>, data |-> <<>>]
ReadRaised == [status |-> "raise", type |-> <<>>, data |-> <<>>]

\* ReadObject splitting the file at its last NUL (content.rindex)
ReadObjectLastNul(objs, sha) ==
    IF StrLen(sha) < 3 THEN NoObject
    ELSE IF sha \notin DOMAIN objs THEN NoObject
    ELSE LET content == objs[sha]
             null_idx == LastIndexOf(content, "NUL", Len(content))
         IN  IF null_idx = 0 THEN ReadRaised
             ELSE [status |-> "ok",
                   type |-> Utf8Decode(SubSeq(content, 1, null_idx - 1)),
                   data |-> Drop(content, null_idx)]

\* ReadObject that reads the file without testing that it exists: read_bytes
\* raises where there is none
ReadObjectNoExists(objs, sha) ==
    IF StrLen(sha) < 3 THEN NoObject
    ELSE IF sha \notin DOMAIN objs THEN ReadRaised
    ELSE LET content == objs[sha]
             null_idx == IndexOf(content, "NUL", 1)
         IN  IF null_idx = 0 THEN ReadRaised
             ELSE [status |-> "ok",
                   type |-> Utf8Decode(SubSeq(content, 1, null_idx - 1)),
                   data |-> Drop(content, null_idx)]

\* _read_object(sha): None, or (obj_type, data); content.index raises ValueError
\* when the file holds no NUL
ReadObject(objs, sha) ==
    IF StrLen(sha) < 3 THEN NoObject
    ELSE IF sha \notin DOMAIN objs THEN NoObject
    ELSE LET content == objs[sha]
             null_idx == IndexOf(content, "NUL", 1)
         IN  IF null_idx = 0 THEN ReadRaised
             ELSE [status |-> "ok",
                   type |-> Utf8Decode(SubSeq(content, 1, null_idx - 1)),
                   data |-> Drop(content, null_idx)]

-----------------------------------------------------------------------------
(* Index: a dict, kept as the sequence of its (key, value) pairs in insertion
   order *)

\* key in d
DictHas(d, k) == \E i \in 1..Len(d) : d[i][1] = k

\* d[k]
DictGet(d, k) == d[CHOOSE i \in 1..Len(d) : d[i][1] = k][2]

\* DictSet that drops every other key
DictSetAlone(d, k, v) == <<<<k, v>>>>

\* d[k] = v
DictSet(d, k, v) ==
    IF DictHas(d, k)
    THEN [i \in 1..Len(d) |-> IF d[i][1] = k THEN <<k, v>> ELSE d[i]]
    ELSE Append(d, <<k, v>>)

\* (k1, v1) < (k2, v2) as Python compares two tuples of str
ItemLess(x, y) == StrLess(x[1], y[1]) \/ (x[1] = y[1] /\ StrLess(x[2], y[2]))

RECURSIVE Insert(_, _)
\* the sorted sequence s with x put in its place
Insert(s, x) ==
    IF s = <<>> THEN <<x>>
    ELSE IF ItemLess(x, Head(s)) THEN <<x>> \o s
    ELSE <<Head(s)>> \o Insert(Tail(s), x)

\* Sorted that leaves the items in insertion order
SortedNot(d) == d

RECURSIVE Sorted(_)
\* sorted(index.items())
Sorted(d) == IF d = <<>> THEN <<>> ELSE Insert(Sorted(Tail(d)), Head(d))

\* a character inside a JSON string, as json.dumps writes it
JsonEscape(c) ==
    CASE c = "\"" -> <<"\\", "\"">>
      [] c = "\\" -> <<"\\", "\\">>
      [] c = "LF" -> <<"\\", "n">>
      [] c = "TAB" -> <<"\\", "t">>
      [] c = "CR" -> <<"\\", "r">>
      [] OTHER -> <<c>>

\* the character an escape \c of a JSON string stands for
JsonUnescape(c) ==
    CASE c = "n" -> "LF"
      [] c = "t" -> "TAB"
      [] c = "r" -> "CR"
      [] OTHER -> c

\* json.dumps of a str
JsonString(s) ==
    <<"\"">> \o Flatten([i \in 1..Len(s) |-> JsonEscape(s[i])]) \o <<"\"">>

\* json.dumps(index, indent=2)
JsonDumps(d) ==
    IF d = <<>> THEN <<"{", "}">>
    ELSE <<"{", "LF">>
         \o Join(<<",", "LF">>,
                 [i \in 1..Len(d) |->
                     <<"SP", "SP">> \o JsonString(d[i][1]) \o <<":", "SP">>
                     \o JsonString(d[i][2])])
         \o <<"LF", "}">>

RECURSIVE JsonSkip(_, _)
\* the first position >= i of t that holds no whitespace
JsonSkip(t, i) ==
    IF i <= Len(t) /\ t[i] \in Whitespace THEN JsonSkip(t, i + 1) ELSE i

RECURSIVE JsonScanString(_, _, _)
\* the JSON string whose opening quote is before t[i]: its value and the position
\* after its closing quote
JsonScanString(t, i, acc) ==
    IF t[i] = "\"" THEN [val |-> acc, next |-> i + 1]
    ELSE IF t[i] = "\\"
         THEN JsonScanString(t, i + 2, Append(acc, JsonUnescape(t[i + 1])))
    ELSE JsonScanString(t, i + 1, Append(acc, t[i]))

RECURSIVE JsonScanMembers(_, _, _)
\* the members of a JSON object from position i on, added to the dict acc
JsonScanMembers(t, i, acc) ==
    LET j == JsonSkip(t, i)
    IN  IF t[j] = "}" THEN acc
        ELSE IF t[j] = "," THEN JsonScanMembers(t, j + 1, acc)
        ELSE LET key == JsonScanString(t, j + 1, <<>>)
                 colon == JsonSkip(t, key.next)
                 val == JsonScanString(t, JsonSkip(t, colon + 1) + 1, <<>>)
             IN  JsonScanMembers(t, val.next, DictSet(acc, key.val, val.val))

\* json.loads of the text of an object of strings
JsonLoads(t) == JsonScanMembers(t, JsonSkip(t, 1) + 1, <<>>)

\* _read_index
ReadIndex(file) == IF file = <<>> THEN <<>> ELSE JsonLoads(file[1])

\* the index file after _write_index(index)
WriteIndex(index) == <<JsonDumps(index)>>

-----------------------------------------------------------------------------
(* HEAD and refs *)

\* 'ref: '
RefPrefix == <<"r", "e", "f", ":", "SP">>

\* 'refs/heads/master'
MasterRef ==
    <<"r", "e", "f", "s", "/", "h", "e", "a", "d", "s", "/",
      "m", "a", "s", "t", "e", "r">>

\* HeadText of an init that names the branch main
HeadTextMain ==
    RefPrefix \o <<"r", "e", "f", "s", "/", "h", "e", "a", "d", "s", "/",
                   "m", "a", "i", "n">> \o <<"LF">>

\* HeadText of an init that writes the name of the ref alone
HeadTextBare == MasterRef \o <<"LF">>

\* the text init writes to HEAD
HeadText == RefPrefix \o MasterRef \o <<"LF">>

\* None, and a str value, where Python has either
None == [is_none |-> TRUE, val |-> <<>>]
Some(s) == [is_none |-> FALSE, val |-> s]

\* bool(x) of a value that is None or a str
Truthy(x) == ~x.is_none /\ x.val # <<>>

\* GetCurrentCommit that returns the text of the ref file as it is
GetCurrentCommitUnstripped(head, rfs) ==
    IF head = <<>> THEN None
    ELSE LET head_content == Strip(head[1])
         IN  IF StartsWith(head_content, RefPrefix)
             THEN LET ref_path == Drop(head_content, 5)
                  IN  IF ref_path \in DOMAIN rfs
                      THEN Some(rfs[ref_path])
                      ELSE None
             ELSE Some(head_content)

\* _get_current_commit()
GetCurrentCommit(head, rfs) ==
    IF head = <<>> THEN None
    ELSE LET head_content == Strip(head[1])
         IN  IF StartsWith(head_content, RefPrefix)
             THEN LET ref_path == Drop(head_content, 5)
                  IN  IF ref_path \in DOMAIN rfs
                      THEN Some(Strip(rfs[ref_path]))
                      ELSE None
             ELSE Some(head_content)

\* SetCurrentCommit of a commit that writes no ref
SetCurrentCommitNever(head, rfs, sha) == rfs

\* the ref files after _set_current_commit(sha), HEAD being present
SetCurrentCommit(head, rfs, sha) ==
    LET head_content == Strip(head[1])
    IN  IF StartsWith(head_content, RefPrefix)
        THEN WriteFile(rfs, Drop(head_content, 5), sha \o <<"LF">>)
        ELSE rfs

-----------------------------------------------------------------------------
(* Trees and commits *)

\* Mode of a tree whose entries are executable files
ModeExecutable == <<"1", "0", "0", "7", "5", "5">>

\* the file mode of every tree entry
Mode == <<"1", "0", "0", "6", "4", "4">>

\* TreeEntry of a commit that hashes the file as it is when commit runs
TreeEntryOfFile(filepath, sha) ==
    Mode \o <<"SP">> \o KindBlob \o <<"SP">>
    \o HashObjectSha(worktree[filepath].data, KindBlob)
    \o <<"TAB">> \o filepath

\* f"100644 blob {sha}\t{filepath}"
TreeEntry(filepath, sha) ==
    Mode \o <<"SP">> \o KindBlob \o <<"SP">> \o sha \o <<"TAB">> \o filepath

\* TreeContent of a commit whose tree carries along the entries of the tree
\* of the current commit
TreeContentCumulative(index) ==
    LET items == Sorted(index)
        own == Join(<<"LF">>,
                    [i \in 1..Len(items) |-> TreeEntry(items[i][1], items[i][2])])
        parent == GetCurrentCommit(head_file, refs)
    IN  IF ~Truthy(parent) THEN own
        ELSE LET commit_lines ==
                     Split(Utf8Decode(ReadObject(objects, parent.val).data), "LF")
                 tree_sha == Drop(commit_lines[1], 5)
             IN  own \o <<"LF">> \o ReadObject(objects, tree_sha).data

\* tree_content of commit: one entry per item of the index, sorted
TreeContent(index) ==
    LET items == Sorted(index)
    IN  Join(<<"LF">>, [i \in 1..Len(items) |-> TreeEntry(items[i][1], items[i][2])])

\* "User <user@example.com>"
Author ==
    <<"U", "s", "e", "r", "SP", "<", "u", "s", "e", "r", "@",
      "e", "x", "a", "m", "p", "l", "e", ".", "c", "o", "m", ">">>

Digits == <<"0", "1", "2", "3", "4", "5", "6", "7", "8", "9">>

RECURSIVE Decimal(_)
\* str(n) of a natural number
Decimal(n) ==
    IF n < 10 THEN <<Digits[n + 1]>>
    ELSE Decimal(n \div 10) \o <<Digits[(n % 10) + 1]>>

TreeKw == <<"t", "r", "e", "e", "SP">>
ParentKw == <<"p", "a", "r", "e", "n", "t", "SP">>
AuthorKw == <<"a", "u", "t", "h", "o", "r", "SP">>
CommitterKw == <<"c", "o", "m", "m", "i", "t", "t", "e", "r", "SP">>

\* ParentLines of a commit that never records its parent
ParentLinesNever(parent) == <<>>

\* the line f"parent {parent}" of commit, present when parent is truthy
ParentLines(parent) ==
    IF Truthy(parent) THEN <<ParentKw \o parent.val>> ELSE <<>>

\* CommitContent without the empty line before the message
CommitContentNoSeparator(tree_sha, parent, timestamp, message) ==
    Join(<<"LF">>,
         <<TreeKw \o tree_sha>>
         \o ParentLines(parent)
         \o <<AuthorKw \o Author \o <<"SP">> \o Decimal(timestamp),
              CommitterKw \o Author \o <<"SP">> \o Decimal(timestamp),
              message>>)

\* commit_content of commit
CommitContent(tree_sha, parent, timestamp, message) ==
    Join(<<"LF">>,
         <<TreeKw \o tree_sha>>
         \o ParentLines(parent)
         \o <<AuthorKw \o Author \o <<"SP">> \o Decimal(timestamp),
              CommitterKw \o Author \o <<"SP">> \o Decimal(timestamp),
              <<>>,
              message>>)

-----------------------------------------------------------------------------
(* History traversal *)

RECURSIVE ParseInt(_, _)
\* int(s) of a string of decimal digits, acc being the value read so far; -1 where
\* int raises ValueError
ParseInt(s, acc) ==
    IF s = <<>> THEN acc
    ELSE IF \E d \in 1..10 : Digits[d] = Head(s)
         THEN ParseInt(Tail(s), 10 * acc + (CHOOSE d \in 1..10 : Digits[d] = Head(s)) - 1)
    ELSE -1

\* the locals of log's loop body before the first line of a commit
NoFields ==
    [tree |-> None, parent |-> None, author |-> None, timestamp |-> -1,
     message_lines |-> <<>>, in_message |-> FALSE, raised |-> FALSE]

\* ParseLine with the parent id sliced one character early (line[6:])
ParseLineOffByOne(st, line) ==
    IF st.in_message
    THEN [st EXCEPT !.message_lines = Append(@, line)]
    ELSE IF StartsWith(line, TreeKw)
    THEN [st EXCEPT !.tree = Some(Drop(line, 5))]
    ELSE IF StartsWith(line, ParentKw)
    THEN [st EXCEPT !.parent = Some(Drop(line, 6))]
    ELSE IF StartsWith(line, AuthorKw)
    THEN LET parts == RSplit1(Drop(line, 7), "SP")
             ts == IF Len(parts) > 1
                   THEN (IF parts[2] = <<>> THEN -1 ELSE ParseInt(parts[2], 0))
                   ELSE 0
         IN  [st EXCEPT !.author = Some(parts[1]),
                        !.timestamp = ts,
                        !.raised = @ \/ (Len(parts) > 1 /\ ts = -1)]
    ELSE IF line = <<>>
    THEN [st EXCEPT !.in_message = TRUE]
    ELSE st

\* one pass of log's "for line in lines" body
ParseLine(st, line) ==
    IF st.in_message
    THEN [st EXCEPT !.message_lines = Append(@, line)]
    ELSE IF StartsWith(line, TreeKw)
    THEN [st EXCEPT !.tree = Some(Drop(line, 5))]
    ELSE IF StartsWith(line, ParentKw)
    THEN [st EXCEPT !.parent = Some(Drop(line, 7))]
    ELSE IF StartsWith(line, AuthorKw)
    THEN LET parts == RSplit1(Drop(line, 7), "SP")
             ts == IF Len(parts) > 1
                   THEN (IF parts[2] = <<>> THEN -1 ELSE ParseInt(parts[2], 0))
                   ELSE 0
         IN  [st EXCEPT !.author = Some(parts[1]),
                        !.timestamp = ts,
                        !.raised = @ \/ (Len(parts) > 1 /\ ts = -1)]
    ELSE IF line = <<>>
    THEN [st EXCEPT !.in_message = TRUE]
    ELSE st

RECURSIVE ParseLines(_, _)
\* log's "for line in lines" loop, stopped where int raises
ParseLines(st, lines) ==
    IF lines = <<>> \/ st.raised THEN st
    ELSE ParseLines(ParseLine(st, Head(lines)), Tail(lines))

\* the fields log reads from the payload of a commit object
ParseCommit(data) ==
    LET st == ParseLines(NoFields, Split(Utf8Decode(data), "LF"))
    IN  [tree |-> st.tree, parent |-> st.parent, author |-> st.author,
         timestamp |-> st.timestamp,
         message |-> Strip(Join(<<"LF">>, st.message_lines)),
         raised |-> st.raised]

RECURSIVE LogWalkStrict(_, _, _, _)
\* LogWalk that raises where an id names no commit object of the store
LogWalkStrict(objs, commit_sha, seen, acc) ==
    IF commit_sha \in seen THEN [status |-> "loop", entries |-> acc]
    ELSE LET obj == ReadObject(objs, commit_sha)
         IN  IF obj.status = "raise" THEN [status |-> "raise", entries |-> acc]
             ELSE IF obj.status = "none" \/ obj.type # KindCommit
             THEN [status |-> "raise", entries |-> acc]
             ELSE LET c == ParseCommit(obj.data)
                      entry == [sha |-> commit_sha, tree |-> c.tree,
                                parent |-> c.parent, author |-> c.author,
                                timestamp |-> c.timestamp, message |-> c.message]
                  IN  IF c.raised THEN [status |-> "raise", entries |-> acc]
                      ELSE IF Truthy(c.parent)
                      THEN LogWalkStrict(objs, c.parent.val,
                                         seen \cup {commit_sha},
                                         Append(acc, entry))
                      ELSE [status |-> "done", entries |-> Append(acc, entry)]

RECURSIVE LogWalk(_, _, _, _)
\* log's "while commit_sha" loop from a truthy commit_sha: the commits printed, and
\* how the loop ends: "done", "raise", or "loop" when it comes back to an id it has
\* visited and so never ends
LogWalk(objs, commit_sha, seen, acc) ==
    IF commit_sha \in seen THEN [status |-> "loop", entries |-> acc]
    ELSE LET obj == ReadObject(objs, commit_sha)
         IN  IF obj.status = "raise" THEN [status |-> "raise", entries |-> acc]
             ELSE IF obj.status = "none" \/ obj.type # KindCommit
             THEN [status |-> "done", entries |-> acc]
             ELSE LET c == ParseCommit(obj.data)
                      entry == [sha |-> commit_sha, tree |-> c.tree,
                                parent |-> c.parent, author |-> c.author,
                                timestamp |-> c.timestamp, message |-> c.message]
                  IN  IF c.raised THEN [status |-> "raise", entries |-> acc]
                      ELSE IF Truthy(c.parent)
                      THEN LogWalk(objs, c.parent.val, seen \cup {commit_sha},
                                   Append(acc, entry))
                      ELSE [status |-> "done", entries |-> Append(acc, entry)]

\* what log prints: the kind of message, and the commits in the order printed
LogOutput(repo, head, rfs, objs) ==
    IF ~repo THEN [status |-> "not_repo", entries |-> <<>>]
    ELSE LET commit_sha == GetCurrentCommit(head, rfs)
         IN  IF ~Truthy(commit_sha) THEN [status |-> "no_commits", entries |-> <<>>]
             ELSE LogWalk(objs, commit_sha.val, {}, <<>>)

-----------------------------------------------------------------------------
(* Commands *)

\* the record of a command: its name, what it printed, and its arguments and
\* locals (those it has)
NoLast ==
    [op |-> "none", out |-> "", filepath |-> <<>>, message |-> <<>>,
     content |-> <<>>, type |-> <<>>, sha |-> <<>>, tree_sha |-> <<>>,
     parent |-> None, timestamp |-> 0, index |-> <<>>, obj |-> NoObject,
     entries |-> <<>>, exit |-> 0]

Last(op, out) == [NoLast EXCEPT !.op = op, !.out = out]

\* the processes that run minigit on the one repository
Procs == {"p", "q"}

\* a process that runs no command
IdleProc == [pc |-> "idle", cmd |-> NoLast]

NoneRunning == [p \in Procs |-> IdleProc]

\* the files and directories of .minigit
repo == <<minigit_dir, dirs, head_file, index_file, refs, objects>>

\* the commit objects in the store
CommitObjects(objs) ==
    {sha \in DOMAIN objs : StartsWith(objs[sha], KindCommit \o <<"NUL">>)}

\* NothingStaged of a commit that takes an empty index too
NothingStagedNever(index) == FALSE

\* "not index" of commit: whether there is nothing staged
NothingStaged(index) == index = <<>>

\* IndexAfterCommit of a commit that leaves the index as it was
IndexAfterCommitKept(index) == index

\* the mapping commit writes back to the index once the ref is set
IndexAfterCommit(index) == <<>>

\* AlreadyARepository of an init that never finds a repository
AlreadyARepositoryNever(md) == FALSE

\* self.minigit_dir.exists() of init
AlreadyARepository(md) == md

\* NotARepository of a command that never misses the repository
NotARepositoryNever(md) == FALSE

\* not self.minigit_dir.exists() of add, commit, log and status
NotARepository(md) == ~md

\* PathExists of an add that takes every path as existing
PathExistsAlways(wt, filepath) == TRUE

\* path.exists() of add
PathExists(wt, filepath) == wt[filepath].kind # "absent"

\* PathIsDir of an add that takes no path for a directory
PathIsDirNever(wt, filepath) == FALSE

\* path.is_dir() of add
PathIsDir(wt, filepath) == wt[filepath].kind = "dir"

\* MiniGit.init()
init ==
    /\ UNCHANGED <<running, worktree, refs, objects>>
    /\ IF AlreadyARepository(minigit_dir)
       THEN /\ UNCHANGED <<minigit_dir, dirs, head_file, index_file>>
            /\ last' = Last("init", "reinitialized")
       ELSE /\ minigit_dir' = TRUE
            /\ dirs' = {"objects", "refs", "refs/heads"}
            /\ head_file' = <<HeadText>>
            /\ index_file' = << <<"{", "}">> >>
            /\ last' = Last("init", "initialized")

\* MiniGit.add(filepath)
add(filepath) ==
    /\ UNCHANGED <<running, worktree, minigit_dir, dirs, head_file, refs>>
    /\ IF NotARepository(minigit_dir)
       THEN /\ UNCHANGED <<index_file, objects>>
            /\ last' = [Last("add", "not_repo") EXCEPT !.filepath = filepath]
       ELSE IF ~PathExists(worktree, filepath)
       THEN /\ UNCHANGED <<index_file, objects>>
            /\ last' = [Last("add", "no_match") EXCEPT !.filepath = filepath]
       ELSE IF PathIsDir(worktree, filepath)
       THEN /\ UNCHANGED <<index_file, objects>>
            /\ last' = [Last("add", "is_dir") EXCEPT !.filepath = filepath]
       ELSE LET content == worktree[filepath].data
                sha == HashObjectSha(content, KindBlob)
                index == ReadIndex(index_file)
            IN  /\ objects' = HashObjectStore(objects, content, KindBlob)
                /\ index_file' = WriteIndex(DictSet(index, filepath, sha))
                /\ last' = [Last("add", "added") EXCEPT
                               !.filepath = filepath, !.content = content,
                               !.sha = sha, !.index = index]

\* MiniGit.commit(message), time.time() returning timestamp
commit(message, timestamp) ==
    /\ UNCHANGED <<running, worktree, minigit_dir, dirs, head_file>>
    /\ IF NotARepository(minigit_dir)
       THEN /\ UNCHANGED <<index_file, refs, objects>>
            /\ last' = [Last("commit", "not_repo") EXCEPT !.message = message]
       ELSE IF NothingStaged(ReadIndex(index_file))
       THEN /\ UNCHANGED <<index_file, refs, objects>>
            /\ last' = [Last("commit", "nothing_to_commit") EXCEPT
                           !.message = message]
       ELSE LET index == ReadIndex(index_file)
                tree_content == TreeContent(index)
                tree_sha == HashObjectSha(tree_content, KindTree)
                objects1 == HashObjectStore(objects, tree_content, KindTree)
                parent == GetCurrentCommit(head_file, refs)
                commit_content ==
                    CommitContent(tree_sha, parent, timestamp, message)
                commit_sha == HashObjectSha(commit_content, KindCommit)
            IN  /\ Cardinality(CommitObjects(objects)) < MaxCommits
                /\ objects' = HashObjectStore(objects1, commit_content, KindCommit)
                /\ refs' = SetCurrentCommit(head_file, refs, commit_sha)
                /\ index_file' = WriteIndex(IndexAfterCommit(index))
                /\ last' = [Last("commit", "committed") EXCEPT
                               !.message = message, !.index = index,
                               !.tree_sha = tree_sha, !.parent = parent,
                               !.timestamp = timestamp, !.sha = commit_sha]

\* MiniGit.log()
log ==
    /\ UNCHANGED <<running, worktree, repo>>
    /\ LET o == LogOutput(minigit_dir, head_file, refs, objects)
       IN  last' = [Last("log", o.status) EXCEPT !.entries = o.entries]

\* the keys of a dict, in its order
Keys(d) == [i \in 1..Len(d) |-> d[i][1]]

\* sorted(index.keys())
SortedKeys(d) == Keys(Sorted(d))

\* status that writes the index back with its paths sorted
status_sorting ==
    /\ UNCHANGED <<running, worktree, minigit_dir, dirs, head_file, refs, objects>>
    /\ IF NotARepository(minigit_dir)
       THEN UNCHANGED index_file /\ last' = Last("status", "not_repo")
       ELSE LET index == ReadIndex(index_file)
                current_commit == GetCurrentCommit(head_file, refs)
            IN  /\ index_file' = WriteIndex(Sorted(index))
                /\ last' = [Last("status", IF index # <<>> THEN "changes" ELSE "clean")
                               EXCEPT !.parent = current_commit,
                                      !.entries = SortedKeys(index)]

\* MiniGit.status()
status ==
    /\ UNCHANGED <<running, worktree, repo>>
    /\ IF NotARepository(minigit_dir)
       THEN last' = Last("status", "not_repo")
       ELSE LET index == ReadIndex(index_file)
                current_commit == GetCurrentCommit(head_file, refs)
            IN  last' = [Last("status", IF index # <<>> THEN "changes" ELSE "clean")
                            EXCEPT !.parent = current_commit,
                                   !.entries = SortedKeys(index)]

\* the user writes a file of the working tree
UserWrite(filepath, content) ==
    /\ worktree' = [worktree EXCEPT ![filepath] = [kind |-> "file", data |-> content]]
    /\ UNCHANGED <<running, repo>>
    /\ last' = Last("write", "")

-----------------------------------------------------------------------------
(* Specification: commands run one after the other on one repository *)

Init ==
    /\ worktree = [p \in Paths |->
                      IF p = PathD THEN [kind |-> "dir", data |-> <<>>]
                      ELSE [kind |-> "absent", data |-> <<>>]]
    /\ minigit_dir = FALSE
    /\ dirs = {}
    /\ head_file = <<>>
    /\ index_file = <<>>
    /\ refs = <<>>
    /\ objects = <<>>
    /\ last = NoLast
    /\ running = NoneRunning

Next ==
    \/ init
    \/ \E filepath \in Paths : add(filepath)
    \/ \E message \in Messages, timestamp \in Times : commit(message, timestamp)
    \/ log
    \/ status
    \/ \E w \in Writes : UserWrite(w[1], w[2])

Spec == Init /\ [][Next]_vars

-----------------------------------------------------------------------------
(* Specification of the command line: main() run with the arguments argv, which
   are sys.argv[1:].  last.exit is the status the process ends with: the
   argument of sys.exit where main calls it, and 0 where main returns. *)

CmdInit == <<"i", "n", "i", "t">>
CmdAdd == <<"a", "d", "d">>
CmdCommit == <<"c", "o", "m", "m", "i", "t">>
CmdLog == <<"l", "o", "g">>
CmdStatus == <<"s", "t", "a", "t", "u", "s">>
DashM == <<"-", "m">>

\* the argument lists given to minigit
Argvs ==
    {<<>>, <<CmdInit>>, <<CmdLog>>, <<CmdStatus>>, <<CmdAdd>>, <<CmdCommit>>,
     <<CmdCommit, DashM, <<>>>>, << <<"m", "v">> >>}
    \cup {<<CmdAdd, filepath>> : filepath \in Paths}
    \cup {<<CmdCommit, DashM, message>> : message \in Messages}

\* main prints what and calls sys.exit(1)
Exit1(what) ==
    /\ UNCHANGED <<running, worktree, repo>>
    /\ last' = [Last("main", what) EXCEPT !.exit = 1]

\* main() with sys.argv[1:] = argv
main(argv) ==
    IF Len(argv) < 1 THEN Exit1("usage")
    ELSE LET command == argv[1]
             args == Tail(argv)
         IN  IF command = CmdInit THEN init
             ELSE IF command = CmdAdd
             THEN IF args = <<>> THEN Exit1("nothing_specified")
                  ELSE add(args[1])
             ELSE IF command = CmdCommit
             THEN LET message == IF Len(args) >= 2 /\ args[1] = DashM
                                 THEN Some(args[2]) ELSE None
                  IN  IF ~Truthy(message) THEN Exit1("no_message")
                      ELSE \E timestamp \in Times :
                              commit(message.val, timestamp)
             ELSE IF command = CmdLog THEN log
             ELSE IF command = CmdStatus THEN status
             ELSE Exit1("unknown_command")

NextMain ==
    \/ \E argv \in Argvs : main(argv)
    \/ \E w \in Writes : UserWrite(w[1], w[2])

SpecMain == Init /\ [][NextMain]_vars

-----------------------------------------------------------------------------
(* Specification of the object store: _hash_object and _read_object called on an
   initialized repository, as the tests of TestHashing call them.  last.entries
   keeps the calls of _hash_object made so far: content, type and returned sha. *)

\* sha = self.mg._hash_object(content, obj_type)
hash_object(content, obj_type) ==
    /\ Len(last.entries) < MaxStores
    /\ objects' = HashObjectStore(objects, content, obj_type)
    /\ UNCHANGED <<running, worktree, minigit_dir, dirs, head_file, index_file, refs>>
    /\ LET sha == HashObjectSha(content, obj_type)
       IN  last' = [Last("hash_object", "") EXCEPT
                       !.content = content, !.type = obj_type, !.sha = sha,
                       !.entries = Append(last.entries,
                                          [content |-> content, type |-> obj_type,
                                           sha |-> sha])]

\* obj = self.mg._read_object(sha)
read_object(sha) ==
    /\ UNCHANGED <<running, worktree, repo>>
    /\ last' = [Last("read_object", "") EXCEPT
                   !.sha = sha, !.obj = ReadObject(objects, sha),
                   !.entries = last.entries]

\* the ids given to _read_object: those of the store, one too short, one of no object
ReadIds == DOMAIN objects \cup {ShortId, Sha1Hex(<<"x">>)}

InitStore ==
    /\ worktree = [p \in Paths |->
                      IF p = PathD THEN [kind |-> "dir", data |-> <<>>]
                      ELSE [kind |-> "absent", data |-> <<>>]]
    /\ minigit_dir = TRUE
    /\ dirs = {"objects", "refs", "refs/heads"}
    /\ head_file = <<HeadText>>
    /\ index_file = << <<"{", "}">> >>
    /\ refs = <<>>
    /\ objects = <<>>
    /\ last = NoLast
    /\ running = NoneRunning

NextStore ==
    \/ \E content \in Contents, obj_type \in Kinds : hash_object(content, obj_type)
    \/ \E sha \in ReadIds : read_object(sha)

SpecStore == InitStore /\ [][NextStore]_vars

-----------------------------------------------------------------------------
(* Specifications of commands that run step by step.  A step is one read or one
   write of a file of the repository, with the computation that follows it.
   The working tree holds PathA and PathB and is not written, so what add
   reads of its path is taken with its first write.  running[p].cmd holds the
   arguments and locals of the invocation of process p while it runs, and last
   holds those of the invocation that has ended last. *)

\* the working tree of the step specifications
StepTree ==
    [f \in Paths |->
        IF f = PathA THEN [kind |-> "file", data |-> <<"1">>]
        ELSE IF f = PathB THEN [kind |-> "file", data |-> <<"2">>]
        ELSE [kind |-> "dir", data |-> <<>>]]

\* the time of the commit made before two processes run
BaseTime == 11

\* what add(PathA) and commit, run on StepTree after init, have stored
BaseBlob == StepTree[PathA].data
BaseIndex == DictSet(<<>>, PathA, HashObjectSha(BaseBlob, KindBlob))
BaseTree == TreeContent(BaseIndex)
BaseCommit ==
    CommitContent(HashObjectSha(BaseTree, KindTree), None, BaseTime,
                  CHOOSE message \in Messages : TRUE)
BaseCommitSha == HashObjectSha(BaseCommit, KindCommit)

\* the commits made since the initial state
CommitsMade(objs) == CommitObjects(objs) \ {BaseCommitSha}

\* CommitSteps of a commit that does not write the index
CommitStepsNoClear ==
    <<"store_tree", "read_parent", "store_commit", "set_ref">>

\* CommitSteps of a commit that clears the index before it sets the ref
CommitStepsIndexFirst ==
    <<"store_tree", "read_parent", "store_commit", "clear_index", "set_ref">>

\* what commit does after it has read a non-empty index, in the order of its
\* statements
CommitSteps ==
    <<"store_tree", "read_parent", "store_commit", "set_ref", "clear_index">>

\* the step that follows step pc of commit; "idle" when commit returns
StepAfter(pc) ==
    LET i == CHOOSE i \in 1..Len(CommitSteps) : CommitSteps[i] = pc
    IN  IF i = Len(CommitSteps) THEN "idle" ELSE CommitSteps[i + 1]

\* process p at step pc
At(p, pc) == running[p].pc = pc

\* process p goes on at step pc with locals cmd; at "idle" it has returned,
\* having printed out
Goto(p, pc, cmd, out) ==
    IF pc = "idle"
    THEN /\ running' = [running EXCEPT ![p] = IdleProc]
         /\ last' = [cmd EXCEPT !.out = out]
    ELSE /\ running' = [running EXCEPT ![p] = [pc |-> pc, cmd |-> cmd]]
         /\ UNCHANGED last

\* add(filepath) up to self._hash_object(content, 'blob'), whose
\* obj_dir.mkdir(exist_ok=True) raises where the objects directory is missing
invoke_add(p, filepath) ==
    /\ At(p, "idle")
    /\ UNCHANGED <<worktree, minigit_dir, dirs, head_file, index_file, refs>>
    /\ LET cmd == [Last("add", "") EXCEPT !.filepath = filepath]
       IN  IF NotARepository(minigit_dir)
           THEN UNCHANGED objects /\ Goto(p, "idle", cmd, "not_repo")
           ELSE IF ~PathExists(worktree, filepath)
           THEN UNCHANGED objects /\ Goto(p, "idle", cmd, "no_match")
           ELSE IF PathIsDir(worktree, filepath)
           THEN UNCHANGED objects /\ Goto(p, "idle", cmd, "is_dir")
           ELSE IF "objects" \notin dirs
           THEN UNCHANGED objects /\ Goto(p, "idle", cmd, "raised")
           ELSE LET content == worktree[filepath].data
                IN  /\ objects' = HashObjectStore(objects, content, KindBlob)
                    /\ Goto(p, "read_index",
                            [cmd EXCEPT !.content = content,
                                        !.sha = HashObjectSha(content, KindBlob)],
                            "")

\* index = self._read_index() of add
add_read_index(p) ==
    /\ At(p, "read_index")
    /\ UNCHANGED <<worktree, repo>>
    /\ Goto(p, "write_index",
            [running[p].cmd EXCEPT !.index = ReadIndex(index_file)], "")

\* add_write_index of an add that sets its entry in the index as the file
\* holds it at the write
add_write_index_reread(p) ==
    /\ At(p, "write_index")
    /\ UNCHANGED <<worktree, minigit_dir, dirs, head_file, refs, objects>>
    /\ LET cmd == running[p].cmd
       IN  /\ index_file' =
                 WriteIndex(DictSet(ReadIndex(index_file), cmd.filepath, cmd.sha))
           /\ Goto(p, "idle", cmd, "added")

\* index[filepath] = sha; self._write_index(index) of add
add_write_index(p) ==
    /\ At(p, "write_index")
    /\ UNCHANGED <<worktree, minigit_dir, dirs, head_file, refs, objects>>
    /\ LET cmd == running[p].cmd
       IN  /\ index_file' = WriteIndex(DictSet(cmd.index, cmd.filepath, cmd.sha))
           /\ Goto(p, "idle", cmd, "added")

\* commit(message) up to its test of the index it has read
invoke_commit(p, message) ==
    /\ At(p, "idle")
    /\ UNCHANGED <<worktree, repo>>
    /\ LET cmd == [Last("commit", "") EXCEPT !.message = message]
       IN  IF NotARepository(minigit_dir)
           THEN Goto(p, "idle", cmd, "not_repo")
           ELSE LET index == ReadIndex(index_file)
                IN  IF NothingStaged(index)
                    THEN Goto(p, "idle", cmd, "nothing_to_commit")
                    ELSE Goto(p, CommitSteps[1], [cmd EXCEPT !.index = index], "")

\* tree_sha = self._hash_object(tree_content, 'tree')
commit_store_tree(p) ==
    /\ At(p, "store_tree")
    /\ UNCHANGED <<worktree, minigit_dir, dirs, head_file, index_file, refs>>
    /\ LET cmd == running[p].cmd
           tree_content == TreeContent(cmd.index)
       IN  /\ objects' = HashObjectStore(objects, tree_content, KindTree)
           /\ Goto(p, StepAfter("store_tree"),
                   [cmd EXCEPT !.tree_sha = HashObjectSha(tree_content, KindTree)],
                   "committed")

\* parent = self._get_current_commit()
commit_read_parent(p) ==
    /\ At(p, "read_parent")
    /\ UNCHANGED <<worktree, repo>>
    /\ Goto(p, StepAfter("read_parent"),
            [running[p].cmd EXCEPT !.parent = GetCurrentCommit(head_file, refs)],
            "committed")

\* commit_sha = self._hash_object(commit_content, 'commit'), time.time()
\* returning timestamp
commit_store_commit(p, timestamp) ==
    /\ At(p, "store_commit")
    /\ Cardinality(CommitsMade(objects)) < MaxCommits
    /\ UNCHANGED <<worktree, minigit_dir, dirs, head_file, index_file, refs>>
    /\ LET cmd == running[p].cmd
           commit_content ==
               CommitContent(cmd.tree_sha, cmd.parent, timestamp, cmd.message)
       IN  /\ objects' = HashObjectStore(objects, commit_content, KindCommit)
           /\ Goto(p, StepAfter("store_commit"),
                   [cmd EXCEPT !.timestamp = timestamp,
                               !.sha = HashObjectSha(commit_content, KindCommit)],
                   "committed")

\* self._set_current_commit(commit_sha), whose self.head_file.read_text()
\* raises where HEAD is missing
commit_set_ref(p) ==
    /\ At(p, "set_ref")
    /\ UNCHANGED <<worktree, minigit_dir, dirs, head_file, index_file, objects>>
    /\ IF head_file = <<>>
       THEN UNCHANGED refs /\ Goto(p, "idle", running[p].cmd, "raised")
       ELSE /\ refs' = SetCurrentCommit(head_file, refs, running[p].cmd.sha)
            /\ Goto(p, StepAfter("set_ref"), running[p].cmd, "committed")

\* self._write_index({}); cmd.entries keeps the paths of the index the write
\* replaces, which is no local of commit
commit_clear_index(p) ==
    /\ At(p, "clear_index")
    /\ UNCHANGED <<worktree, minigit_dir, dirs, head_file, refs, objects>>
    /\ index_file' = WriteIndex(IndexAfterCommit(running[p].cmd.index))
    /\ Goto(p, StepAfter("clear_index"),
            [running[p].cmd EXCEPT !.entries = SortedKeys(ReadIndex(index_file))],
            "committed")

\* the process of p ends where it is: what it has written stays
crash(p) ==
    /\ ~At(p, "idle")
    /\ UNCHANGED <<worktree, repo>>
    /\ Goto(p, "idle", running[p].cmd, "crashed")

\* a step of process p, which gives add the paths of paths
step(p, paths) ==
    \/ \E filepath \in paths : invoke_add(p, filepath)
    \/ add_read_index(p)
    \/ add_write_index(p)
    \/ \E message \in Messages : invoke_commit(p, message)
    \/ commit_store_tree(p)
    \/ commit_read_parent(p)
    \/ \E timestamp \in Times : commit_store_commit(p, timestamp)
    \/ commit_set_ref(p)
    \/ commit_clear_index(p)

\* an initialized repository with nothing staged
InitSteps ==
    /\ worktree = StepTree
    /\ minigit_dir = TRUE
    /\ dirs = {"objects", "refs", "refs/heads"}
    /\ head_file = <<HeadText>>
    /\ index_file = << <<"{", "}">> >>
    /\ refs = <<>>
    /\ objects = <<>>
    /\ last = NoLast
    /\ running = NoneRunning

\* one process runs commands one after the other, and may end at any step
NextCrash == step("p", Paths) \/ crash("p")

SpecCrash == InitSteps /\ [][NextCrash]_vars

\* the repository after init, add(PathA) and commit at BaseTime
InitRace ==
    /\ worktree = StepTree
    /\ minigit_dir = TRUE
    /\ dirs = {"objects", "refs", "refs/heads"}
    /\ head_file = <<HeadText>>
    /\ index_file = WriteIndex(IndexAfterCommit(BaseIndex))
    /\ refs = SetCurrentCommit(<<HeadText>>, <<>>, BaseCommitSha)
    /\ objects =
          HashObjectStore(
              HashObjectStore(HashObjectStore(<<>>, BaseBlob, KindBlob),
                              BaseTree, KindTree),
              BaseCommit, KindCommit)
    /\ last = NoLast
    /\ running = NoneRunning

\* the paths each process stages where two processes run
Stages == [p |-> {PathA}, q |-> {PathB}]

\* the processes run commands at the same time
NextRace == \E p \in Procs : step(p, Stages[p])

SpecRace == InitRace /\ [][NextRace]_vars

-----------------------------------------------------------------------------
(* Specification of the commit payload: add and commit run on an initialized
   repository, commit being given messages of several lines, among them empty
   lines and lines that read as header fields, at more than one time. *)

\* the messages given to commit
PayloadMessages ==
    {<<"m">>,
     <<>>,
     <<"m", "LF", "LF", "n">>,
     <<"p", "a", "r", "e", "n", "t", "SP", "x">>,
     <<"LF", "p", "a", "r", "e", "n", "t", "SP", "x", "LF",
       "t", "r", "e", "e", "SP", "y", "LF", "LF", "SP">>}

\* the values int(time.time()) takes
PayloadTimes == {12, 13}

NextPayload ==
    \/ add(PathA)
    \/ \E message \in PayloadMessages, timestamp \in PayloadTimes :
          commit(message, timestamp)

SpecPayload == InitSteps /\ [][NextPayload]_vars

-----------------------------------------------------------------------------
(* Specification of a repository that is damaged from outside: between the
   commands a file of the object store is removed, or the ref file is written
   by hand to name an object of the store.  log then meets an id that names
   no object, or an object that is no commit. *)

\* the ids in the text of a payload that follow the keyword kw at the start
\* of a line before the first empty line
NamedBy(content, kw) ==
    LET lines == Split(Utf8Decode(Drop(content, IndexOf(content, "NUL", 1))), "LF")
        blank == {i \in 1..Len(lines) : lines[i] = <<>>}
        first == IF blank = {} THEN Len(lines) + 1
                 ELSE CHOOSE i \in blank : \A j \in blank : i <= j
    IN  {Drop(lines[i], Len(kw)) :
            i \in {j \in 1..(first - 1) : StartsWith(lines[j], kw)}}

\* every id the ref file and the commit objects name is that of an object of
\* the store
Intact ==
    /\ \A ref_path \in DOMAIN refs : Strip(refs[ref_path]) \in DOMAIN objects
    /\ \A sha \in CommitObjects(objects) :
          /\ NamedBy(objects[sha], TreeKw) \subseteq DOMAIN objects
          /\ NamedBy(objects[sha], ParentKw) \subseteq DOMAIN objects

\* the file of the object sha is removed
lose_object(sha) ==
    /\ Intact
    /\ sha \in DOMAIN objects
    /\ objects' = [x \in DOMAIN objects \ {sha} |-> objects[x]]
    /\ UNCHANGED <<running, worktree, minigit_dir, dirs, head_file, index_file, refs>>
    /\ last' = [Last("lose", "") EXCEPT !.sha = sha]

\* the ref file HEAD names is written by hand with the id of the object sha
point_ref(sha) ==
    /\ Intact
    /\ sha \in DOMAIN objects
    /\ refs' = SetCurrentCommit(head_file, refs, sha)
    /\ refs' # refs
    /\ UNCHANGED <<running, worktree, minigit_dir, dirs, head_file, index_file, objects>>
    /\ last' = [Last("point", "") EXCEPT !.sha = sha]

NextDamage ==
    \/ add(PathA)
    \/ \E message \in Messages, timestamp \in Times : commit(message, timestamp)
    \/ log
    \/ \E sha \in DOMAIN objects : lose_object(sha)
    \/ \E sha \in DOMAIN objects : point_ref(sha)

SpecDamage == InitSteps /\ [][NextDamage]_vars

-----------------------------------------------------------------------------
(* The tree of an index *)

\* trees built in one run of the tree specification
MaxTrees == 2

\* the blobs of the contents "1" and "2"
BlobOne == HashObjectSha(<<"1">>, KindBlob)
BlobTwo == HashObjectSha(<<"2">>, KindBlob)

\* a file name that holds a newline and a tab: the name "a", a newline, and
\* what follows the newline in the tree entry of "b" staged with BlobTwo
PathOdd == PathA \o <<"LF">> \o TreeEntry(PathB, BlobTwo)

PathTab == <<"a", "TAB", "b">>
PathLine == <<"a", "LF", "b">>

\* the indexes add leaves in the index file: index[filepath] = sha, one add
\* after the other from the empty index
TreeIndexes ==
    {DictSet(<<>>, PathA, BlobOne),
     DictSet(<<>>, PathA, BlobTwo),
     DictSet(<<>>, PathB, BlobTwo),
     DictSet(DictSet(<<>>, PathA, BlobOne), PathB, BlobTwo),
     DictSet(DictSet(<<>>, PathB, BlobTwo), PathA, BlobOne),
     DictSet(<<>>, PathOdd, BlobOne),
     DictSet(<<>>, PathTab, BlobOne),
     DictSet(<<>>, PathLine, BlobOne)}

\* _write_index(index) at the end of add
write_index(index) ==
    /\ index_file' = WriteIndex(index)
    /\ index_file' # index_file
    /\ UNCHANGED <<running, worktree, minigit_dir, dirs, head_file, refs, objects, last>>

\* the tree of commit: the index is read, its tree content is built and
\* stored; last.entries keeps each index read and the tree id it was given
tree_object ==
    LET index == ReadIndex(index_file)
        tree_content == TreeContent(index)
        tree_sha == HashObjectSha(tree_content, KindTree)
    IN  /\ ~NothingStaged(index)
        /\ Len(last.entries) < MaxTrees
        /\ objects' = HashObjectStore(objects, tree_content, KindTree)
        /\ last' = [Last("tree", "") EXCEPT
                       !.index = index, !.tree_sha = tree_sha,
                       !.entries = Append(last.entries,
                                          [index |-> index, tree_sha |-> tree_sha])]
        /\ UNCHANGED <<running, worktree, minigit_dir, dirs, head_file, refs, index_file>>

NextTree ==
    \/ \E index \in TreeIndexes : write_index(index)
    \/ tree_object

SpecTree == InitSteps /\ [][NextTree]_vars

-----------------------------------------------------------------------------
(* Two processes that stage: each process runs add, one invocation after the
   other, on the one initialized repository; nothing else runs. *)

\* the paths each process gives to add; PathD is a directory
StagesAdds == [p |-> {PathA, PathD}, q |-> {PathB, PathD}]

\* a step of an add of process p
step_add(p) ==
    \/ \E filepath \in StagesAdds[p] : invoke_add(p, filepath)
    \/ add_read_index(p)
    \/ add_write_index(p)

NextAdds == \E p \in Procs : step_add(p)

SpecAdds == InitSteps /\ [][NextAdds]_vars

-----------------------------------------------------------------------------
(* Initialization step by step: one process runs init, add and commit one
   after the other in a directory where no repository is, each directory
   made and each file written being a step, and may end at any step. *)

\* MiniGit.init() up to self.minigit_dir.mkdir()
invoke_init(p) ==
    /\ At(p, "idle")
    /\ UNCHANGED <<worktree, dirs, head_file, index_file, refs, objects>>
    /\ IF AlreadyARepository(minigit_dir)
       THEN /\ UNCHANGED minigit_dir
            /\ Goto(p, "idle", Last("init", ""), "reinitialized")
       ELSE /\ minigit_dir' = TRUE
            /\ Goto(p, "init_objects", Last("init", ""), "")

\* self.objects_dir.mkdir()
init_mkdir_objects(p) ==
    /\ At(p, "init_objects")
    /\ UNCHANGED <<worktree, minigit_dir, head_file, index_file, refs, objects>>
    /\ dirs' = dirs \cup {"objects"}
    /\ Goto(p, "init_refs", running[p].cmd, "")

\* (self.minigit_dir / 'refs' / 'heads').mkdir(parents=True): refs is made
init_mkdir_refs(p) ==
    /\ At(p, "init_refs")
    /\ UNCHANGED <<worktree, minigit_dir, head_file, index_file, refs, objects>>
    /\ dirs' = dirs \cup {"refs"}
    /\ Goto(p, "init_heads", running[p].cmd, "")

\* (self.minigit_dir / 'refs' / 'heads').mkdir(parents=True): refs/heads is
\* made in refs
init_mkdir_heads(p) ==
    /\ At(p, "init_heads")
    /\ UNCHANGED <<worktree, minigit_dir, head_file, index_file, refs, objects>>
    /\ dirs' = dirs \cup {"refs/heads"}
    /\ Goto(p, "init_head", running[p].cmd, "")

\* self.head_file.write_text('ref: refs/heads/master\n')
init_write_head(p) ==
    /\ At(p, "init_head")
    /\ UNCHANGED <<worktree, minigit_dir, dirs, index_file, refs, objects>>
    /\ head_file' = <<HeadText>>
    /\ Goto(p, "init_index", running[p].cmd, "")

\* self.index_file.write_text('{}') and the print that ends init
init_write_index(p) ==
    /\ At(p, "init_index")
    /\ UNCHANGED <<worktree, minigit_dir, dirs, head_file, refs, objects>>
    /\ index_file' = << <<"{", "}">> >>
    /\ Goto(p, "idle", running[p].cmd, "initialized")

\* a directory where no repository is
InitNoRepository ==
    /\ worktree = StepTree
    /\ minigit_dir = FALSE
    /\ dirs = {}
    /\ head_file = <<>>
    /\ index_file = <<>>
    /\ refs = <<>>
    /\ objects = <<>>
    /\ last = NoLast
    /\ running = NoneRunning

NextInit ==
    \/ invoke_init("p")
    \/ init_mkdir_objects("p")
    \/ init_mkdir_refs("p")
    \/ init_mkdir_heads("p")
    \/ init_write_head("p")
    \/ init_write_index("p")
    \/ step("p", {PathA})
    \/ crash("p")

SpecInit == InitNoRepository /\ [][NextInit]_vars

-----------------------------------------------------------------------------
(* Properties *)

\* the header lines of a commit payload: those before its first empty line
HeaderLines(data) ==
    LET lines == Split(Utf8Decode(data), "LF")
        blank == {i \in 1..Len(lines) : lines[i] = <<>>}
        first == IF blank = {} THEN Len(lines) + 1
                 ELSE CHOOSE i \in blank : \A j \in blank : i <= j
    IN  SubSeq(lines, 1, first - 1)

\* the ids the parent lines of a commit payload give
ParentsOf(data) ==
    LET h == HeaderLines(data)
    IN  {Drop(h[i], 7) : i \in {j \in 1..Len(h) : StartsWith(h[j], ParentKw)}}

\* the number of parent lines of a commit payload
ParentLineCount(data) ==
    LET h == HeaderLines(data)
    IN  Cardinality({j \in 1..Len(h) : StartsWith(h[j], ParentKw)})

\* the step is a commit that succeeded
CommittedStep == last'.op = "commit" /\ last'.out = "committed"

\* C1: every successful commit stores one new commit object; its payload has a
\* parent line equal to the id currentCommit() returned right before the commit,
\* and has no parent line exactly when currentCommit() was none.
C1_ParentLinkage ==
    [][CommittedStep =>
        LET before == GetCurrentCommit(head_file, refs)
            new == CommitObjects(objects') \ CommitObjects(objects)
        IN  /\ new = {last'.sha}
            /\ \A sha \in new :
                  LET obj == ReadObject(objects', sha)
                  IN  /\ obj.status = "ok"
                      /\ obj.type = KindCommit
                      /\ (ParentLineCount(obj.data) = 0) <=> before.is_none
                      /\ ~before.is_none =>
                            /\ ParentLineCount(obj.data) = 1
                            /\ ParentsOf(obj.data) = {before.val}]_vars

\* a second commit has been made: its object has a parent line
C1_Witness ==
    /\ last.op = "commit" /\ last.out = "committed"
    /\ Cardinality(CommitObjects(objects)) = 2
    /\ ParentsOf(ReadObject(objects, last.sha).data) = {last.parent.val}
    /\ ~last.parent.is_none

\* C2: after a successful commit the persisted index is the empty mapping,
\* whatever number of paths was staged.
C2_CommitClearsIndex ==
    (last.op = "commit" /\ last.out = "committed") =>
        /\ index_file # <<>>
        /\ ReadIndex(index_file) = <<>>

\* a commit of two staged paths has been made
C2_Witness ==
    /\ last.op = "commit" /\ last.out = "committed"
    /\ Len(last.index) = 2
    /\ ReadIndex(index_file) = <<>>

\* C3: commit with an empty index is refused and leaves the persisted state as it
\* was: currentCommit(), the ref files, the index and the object store.
C3_EmptyCommitRefused ==
    [][(last'.op = "commit" /\ minigit_dir /\ ReadIndex(index_file) = <<>>) =>
        /\ last'.out = "nothing_to_commit"
        /\ GetCurrentCommit(head_file', refs') = GetCurrentCommit(head_file, refs)
        /\ refs' = refs
        /\ DOMAIN refs' = DOMAIN refs
        /\ index_file' = index_file
        /\ ReadIndex(index_file') = <<>>
        /\ objects' = objects
        /\ head_file' = head_file
        /\ dirs' = dirs]_vars

\* a commit has been refused after an earlier commit was made
C3_Witness ==
    /\ last.op = "commit" /\ last.out = "nothing_to_commit"
    /\ ~GetCurrentCommit(head_file, refs).is_none
    /\ CommitObjects(objects) # {}

\* C4: log, after n successful commits, prints exactly those n commits, from the
\* current one down to the root: each commit's parent is the next one printed and
\* the last one has no parent.
C4_HistoryYieldsAll ==
    (last.op = "log" /\ minigit_dir) =>
        LET n == Cardinality(CommitObjects(objects))
            e == last.entries
        IN  /\ last.out = (IF n = 0 THEN "no_commits" ELSE "done")
            /\ Len(e) = n
            /\ {e[i].sha : i \in 1..n} = CommitObjects(objects)
            /\ n > 0 => e[1].sha = GetCurrentCommit(head_file, refs).val
            /\ \A i \in 1..n :
                  IF i < n THEN e[i].parent = Some(e[i + 1].sha)
                  ELSE e[i].parent = None

\* log has printed two commits
C4_Witness ==
    /\ last.op = "log" /\ last.out = "done"
    /\ Len(last.entries) = 2
    /\ last.entries[1].parent = Some(last.entries[2].sha)

\* C5: history traversal ends in every reachable state: the parent of every commit
\* object is a commit object of the store, other than itself, and the walk from
\* any commit of the store, and from currentCommit(), never comes back to an id it
\* has visited.
C5_HistoryTerminates ==
    /\ LogOutput(minigit_dir, head_file, refs, objects).status
          \in {"not_repo", "no_commits", "done"}
    /\ \A sha \in CommitObjects(objects) :
          /\ LogWalk(objects, sha, {}, <<>>).status = "done"
          /\ \A p \in ParentsOf(ReadObject(objects, sha).data) :
                p \in CommitObjects(objects) /\ p # sha

\* log has walked a chain of two commits to its end
C5_Witness ==
    /\ last.op = "log" /\ last.out = "done"
    /\ Cardinality(CommitObjects(objects)) = 2
    /\ Len(last.entries) = 2

\* the bytes of a content given to _hash_object
BytesOf(content) == Utf8Encode(content)

\* C6: storing is idempotent: _hash_object called again with a kind and payload
\* it was called with before returns the same id and leaves the object store,
\* its ids and the bytes under each, as it was.
C6_StoreIdempotent ==
    [][(last'.op = "hash_object") =>
        \A i \in 1..Len(last.entries) :
            LET e == last.entries[i]
            IN  (e.type = last'.type /\ BytesOf(e.content) = BytesOf(last'.content))
                    => /\ last'.sha = e.sha
                       /\ objects' = objects
                       /\ DOMAIN objects' = DOMAIN objects]_vars

\* the same kind and payload have been stored twice
C6_Witness ==
    /\ last.op = "hash_object"
    /\ Len(last.entries) = 2
    /\ last.entries[1] = last.entries[2]
    /\ DOMAIN objects = {last.sha}

\* C7: distinct (kind, payload) pairs get distinct ids; the same payload stored
\* under two kinds gets two ids.
C7_DistinctIds ==
    \A i, j \in 1..Len(last.entries) :
        LET a == last.entries[i]
            b == last.entries[j]
        IN  (a.type # b.type \/ BytesOf(a.content) # BytesOf(b.content))
                => a.sha # b.sha

\* one payload has been stored as a blob and as a tree
C7_Witness ==
    /\ last.op = "hash_object"
    /\ Len(last.entries) = 2
    /\ last.entries[1].type = KindBlob
    /\ last.entries[2].type = KindTree
    /\ last.entries[1].content = last.entries[2].content
    /\ Cardinality(DOMAIN objects) = 2

\* C8: round trip: _read_object of the id _hash_object returned for a blob of s
\* gives the kind blob and the bytes of s.
C8_RoundTrip ==
    (last.op = "read_object") =>
        \A i \in 1..Len(last.entries) :
            LET e == last.entries[i]
            IN  (e.sha = last.sha /\ e.type = KindBlob)
                    => last.obj = [status |-> "ok", type |-> KindBlob,
                                   data |-> BytesOf(e.content)]

\* a blob whose content holds a NUL has been stored and read back
C8_Witness ==
    /\ last.op = "read_object"
    /\ last.obj.status = "ok"
    /\ last.obj.type = KindBlob
    /\ last.obj.data = <<"h", "NUL", "h">>
    /\ \E i \in 1..Len(last.entries) : last.entries[i].sha = last.sha

\* the orders a dict of the same items can be in
Orders(d) ==
    {o \in [1..Len(d) -> {d[i] : i \in 1..Len(d)}] :
        {o[i] : i \in 1..Len(d)} = {d[i] : i \in 1..Len(d)}}

\* C9: the tree id a commit stores depends on the path -> blob-id pairs of the
\* index alone: the same pairs staged in any other order give the same tree id.
C9_TreeDeterminism ==
    (last.op = "commit" /\ last.out = "committed") =>
        /\ last.tree_sha \in DOMAIN objects
        /\ \A o \in Orders(last.index) :
              HashObjectSha(TreeContent(o), KindTree) = last.tree_sha

\* a commit has been made of two paths staged in descending order
C9_Witness ==
    /\ last.op = "commit" /\ last.out = "committed"
    /\ Len(last.index) = 2
    /\ StrLess(last.index[2][1], last.index[1][1])

\* the keys of a dict
KeySet(d) == {d[i][1] : i \in 1..Len(d)}

\* C10: a successful add of a regular file stores the file's content as a blob
\* and sets index[path] to the blob's id, overwriting an earlier entry of the path;
\* every other entry of the index, the ref and HEAD stay as they were.
C10_AddStages ==
    [][(last'.op = "add" /\ last'.out = "added") =>
        LET path == last'.filepath
            sha == Sha1Hex(Utf8Encode(KindBlob \o <<"NUL">>) \o worktree[path].data)
            old == ReadIndex(index_file)
            new == ReadIndex(index_file')
        IN  /\ worktree[path].kind = "file"
            /\ ReadObject(objects', sha) =
                  [status |-> "ok", type |-> KindBlob, data |-> worktree[path].data]
            /\ KeySet(new) = KeySet(old) \cup {path}
            /\ Cardinality(KeySet(new)) = Len(new)
            /\ DictGet(new, path) = sha
            /\ \A q \in KeySet(old) \ {path} : DictGet(new, q) = DictGet(old, q)
            /\ refs' = refs
            /\ head_file' = head_file]_vars

\* an add has replaced the entry of its path, beside the entry of another path
C10_Witness ==
    /\ last.op = "add" /\ last.out = "added"
    /\ Len(last.index) = 2
    /\ DictHas(last.index, last.filepath)
    /\ DictGet(last.index, last.filepath) # last.sha
    /\ DictGet(ReadIndex(index_file), last.filepath) = last.sha

\* C11: add of a path that is not in the working tree, or that is a directory,
\* prints its message and returns, and the index, the object store and the
\* ref are what they were
C11_AddRefused ==
    [][\A filepath \in Paths :
          (/\ minigit_dir
           /\ worktree[filepath].kind \in {"absent", "dir"}
           /\ last'.op = "add"
           /\ last'.filepath = filepath)
          => /\ last'.out = (IF worktree[filepath].kind = "absent"
                             THEN "no_match" ELSE "is_dir")
             /\ index_file' = index_file
             /\ objects' = objects
             /\ refs' = refs
             /\ head_file' = head_file]_vars

\* add has refused a path while entries were staged and a commit was made
C11_Witness ==
    /\ last.op = "add"
    /\ last.out = "no_match"
    /\ worktree[last.filepath].kind = "absent"
    /\ ReadIndex(index_file) # <<>>
    /\ CommitObjects(objects) # {}
    /\ refs # <<>>

\* C12: add, commit, log and status run where init has not run report that
\* there is no repository and return; no directory, object, index or ref of
\* the repository exists afterwards
C12_NoRepositoryNoChange ==
    [][(/\ ~minigit_dir
        /\ last'.op \in {"add", "commit", "log", "status"})
       => /\ last'.out = "not_repo"
          /\ minigit_dir' = FALSE
          /\ dirs' = {}
          /\ objects' = <<>>
          /\ index_file' = <<>>
          /\ refs' = <<>>
          /\ head_file' = <<>>]_vars

\* add of a file that exists has reported that there is no repository
C12_Witness ==
    /\ ~minigit_dir
    /\ last.op = "add"
    /\ last.out = "not_repo"
    /\ worktree[last.filepath].kind = "file"
    /\ objects = <<>> /\ index_file = <<>> /\ refs = <<>> /\ dirs = {}

\* C13: when init has created a repository, the objects directory and
\* refs/heads exist, HEAD holds 'ref: refs/heads/master', the index file
\* holds the empty mapping, and there is no current commit
C13_InitCreates ==
    (last.op = "init" /\ last.out = "initialized")
    => /\ minigit_dir
       /\ {"objects", "refs/heads"} \subseteq dirs
       /\ head_file =
             << <<"r", "e", "f", ":", "SP", "r", "e", "f", "s", "/",
                  "h", "e", "a", "d", "s", "/", "m", "a", "s", "t", "e", "r",
                  "LF">> >>
       /\ index_file # <<>>
       /\ ReadIndex(index_file) = <<>>
       /\ GetCurrentCommit(head_file, refs) = None
       /\ objects = <<>>

\* init has created the repository, files being in the working tree
C13_Witness ==
    /\ last.op = "init"
    /\ last.out = "initialized"
    /\ minigit_dir
    /\ worktree[PathA].kind = "file"

\* C14: init run where the repository exists changes nothing: HEAD, the ref,
\* the index with its staged entries and the object store are what they were
C14_InitIdempotent ==
    [][(minigit_dir /\ last'.op = "init")
       => /\ last'.out = "reinitialized"
          /\ head_file' = head_file
          /\ refs' = refs
          /\ index_file' = index_file
          /\ objects' = objects
          /\ dirs' = dirs
          /\ minigit_dir']_vars

\* init has run again after a commit, with entries staged
C14_Witness ==
    /\ last.op = "init"
    /\ last.out = "reinitialized"
    /\ ReadIndex(index_file) # <<>>
    /\ Truthy(GetCurrentCommit(head_file, refs))

\* C15: no command removes an id from the object store or changes the bytes
\* held under an id
C15_StoreWriteOnce ==
    [][\A sha \in DOMAIN objects :
          /\ sha \in DOMAIN objects'
          /\ objects'[sha] = objects[sha]]_vars

\* add has stored again, entries and a commit being in the store, the blob
\* of the content it had staged for the path before
C15_Witness ==
    /\ last.op = "add"
    /\ last.out = "added"
    /\ DictHas(last.index, last.filepath)
    /\ DictGet(last.index, last.filepath) = last.sha
    /\ CommitObjects(objects) # {}
    /\ Cardinality(DOMAIN objects) >= 3

\* the ids the tree line of a commit payload gives
TreesOf(data) ==
    LET h == HeaderLines(data)
    IN  {Drop(h[i], 5) : i \in {j \in 1..Len(h) : StartsWith(h[j], TreeKw)}}

\* the ref names the commit that the invocation of locals cmd has stored,
\* and the index holds the entries that invocation read
RefAdvancedIndexKept(cmd) ==
    /\ cmd.op = "commit"
    /\ cmd.sha # <<>>
    /\ cmd.index # <<>>
    /\ GetCurrentCommit(head_file, refs) = Some(cmd.sha)
    /\ ReadIndex(index_file) = cmd.index

\* C16 as it is stated: in no state, a crash or a commit under way included,
\* does the ref name the new commit while the index holds the entries that
\* commit recorded
C16_ClearedWithRef ==
    /\ ~RefAdvancedIndexKept(last)
    /\ \A p \in Procs : ~RefAdvancedIndexKept(running[p].cmd)

\* C16, amended: the index is cleared by a write of its own that follows the
\* write of the ref.  When commit has returned the ref names the new commit
\* and the index is empty; the ref names the new commit while the index
\* holds the entries recorded only where commit stands before its last
\* write, or has ended there by a crash
C16_ClearedLast ==
    /\ (last.op = "commit" /\ last.out = "committed")
       => /\ GetCurrentCommit(head_file, refs) = Some(last.sha)
          /\ index_file # <<>>
          /\ ReadIndex(index_file) = <<>>
    /\ RefAdvancedIndexKept(last) => last.out = "crashed"
    /\ \A p \in Procs :
          RefAdvancedIndexKept(running[p].cmd) => At(p, "clear_index")

\* a second commit has returned
C16_Witness ==
    /\ last.op = "commit"
    /\ last.out = "committed"
    /\ Truthy(last.parent)
    /\ GetCurrentCommit(head_file, refs) = Some(last.sha)
    /\ ReadIndex(index_file) = <<>>

\* C17: commit stores the tree before it stores the commit object, stores
\* the commit object before it writes the ref, and writes the ref before it
\* clears the index
C17_WriteOrder ==
    [][LET cmd == running["p"].cmd
       IN  /\ \A sha \in CommitObjects(objects') \ CommitObjects(objects) :
                 /\ TreesOf(ReadObject(objects', sha).data) = {cmd.tree_sha}
                 /\ cmd.tree_sha \in DOMAIN objects
                 /\ refs' = refs
                 /\ index_file' = index_file
           /\ refs' # refs
              => /\ cmd.sha \in CommitObjects(objects)
                 /\ GetCurrentCommit(head_file, refs') = Some(cmd.sha)
                 /\ index_file' = index_file
                 /\ ReadIndex(index_file) = cmd.index
           /\ (cmd.op = "commit" /\ index_file' # index_file)
              => /\ cmd.sha \in CommitObjects(objects)
                 /\ GetCurrentCommit(head_file, refs) = Some(cmd.sha)
                 /\ ReadIndex(index_file') = <<>>]_vars

\* commit has ended by a crash between its last two writes: the ref names
\* the commit it stored, and the index holds the entries it read
C17_Witness ==
    /\ last.op = "commit"
    /\ last.out = "crashed"
    /\ At("p", "idle")
    /\ last.sha \in CommitObjects(objects)
    /\ last.tree_sha \in DOMAIN objects
    /\ RefAdvancedIndexKept(last)

\* the commits log goes through from the current commit
Reached(head, rfs, objs) ==
    LET commit_sha == GetCurrentCommit(head, rfs)
    IN  IF ~Truthy(commit_sha) THEN {}
        ELSE LET e == LogWalk(objs, commit_sha.val, {}, <<>>).entries
             IN  {e[i].sha : i \in 1..Len(e)}

\* the parents the commit object sha of the store names
ParentsIn(objs, sha) == ParentsOf(ReadObject(objs, sha).data)

\* C18: where two commits run at once, the one that writes the ref last
\* overwrites it.  When the commit it overwrites has the parent it has read
\* itself, the ref holds its own commit alone, and the commit overwritten
\* is no longer among those reached from HEAD
C18_StaleParentLosesCommit ==
    [][\A p \in Procs :
          (At(p, "set_ref") /\ running'[p] # running[p])
          => LET cmd == running[p].cmd
                 before == GetCurrentCommit(head_file, refs)
             IN  /\ GetCurrentCommit(head_file, refs') = Some(cmd.sha)
                 /\ ParentsIn(objects, cmd.sha)
                       = (IF Truthy(cmd.parent) THEN {cmd.parent.val} ELSE {})
                 /\ (/\ Truthy(before)
                     /\ before.val # cmd.sha
                     /\ before.val \in CommitObjects(objects)
                     /\ ParentsIn(objects, before.val) = ParentsIn(objects, cmd.sha))
                    => /\ cmd.sha \in Reached(head_file, refs', objects')
                       /\ before.val \notin Reached(head_file, refs', objects')]_vars

\* two commits have returned that read the same parent: both objects name
\* it, the ref names one of them, and log does not reach the other
C18_Witness ==
    /\ \A p \in Procs : At(p, "idle")
    /\ \E c1, c2 \in CommitObjects(objects) :
          /\ c1 # c2
          /\ ParentsIn(objects, c1) = {BaseCommitSha}
          /\ ParentsIn(objects, c2) = {BaseCommitSha}
          /\ GetCurrentCommit(head_file, refs) = Some(c1)
          /\ c1 \in Reached(head_file, refs, objects)
          /\ c2 \notin Reached(head_file, refs, objects)

\* the paths the lines of a tree payload give: what follows the first tab
TreePaths(data) ==
    LET lines == Split(Utf8Decode(data), "LF")
    IN  {Drop(lines[i], IndexOf(lines[i], "TAB", 1)) :
            i \in {j \in 1..Len(lines) : IndexOf(lines[j], "TAB", 1) > 0}}

\* the paths of the tree object sha of the store
TreePathsIn(objs, sha) == TreePaths(ReadObject(objs, sha).data)

\* C19: commit clears the index whatever it holds then, having stored the
\* tree of the entries it read at its start: a path that an add wrote to
\* the index between the two is afterwards in neither the tree nor the
\* index
C19_ClearDropsLateEntry ==
    [][\A p \in Procs :
          (At(p, "clear_index") /\ running'[p] # running[p])
          => LET cmd == running[p].cmd
                 late == KeySet(ReadIndex(index_file)) \ KeySet(cmd.index)
             IN  /\ index_file' # <<>>
                 /\ ReadIndex(index_file') = <<>>
                 /\ TreePathsIn(objects', cmd.tree_sha) = KeySet(cmd.index)
                 /\ \A filepath \in late :
                       /\ filepath \notin KeySet(ReadIndex(index_file'))
                       /\ filepath \notin TreePathsIn(objects', cmd.tree_sha)]_vars

\* commit has returned, having cleared an index that held a path staged
\* after it had read the index: the blob of the path is stored, and the
\* path is in neither the tree committed nor the index
C19_Witness ==
    /\ last.op = "commit"
    /\ last.out = "committed"
    /\ \A p \in Procs : At(p, "idle")
    /\ ReadIndex(index_file) = <<>>
    /\ \E i \in 1..Len(last.entries) :
          LET filepath == last.entries[i]
          IN  /\ filepath \notin KeySet(last.index)
              /\ filepath \notin TreePathsIn(objects, last.tree_sha)
              /\ HashObjectSha(worktree[filepath].data, KindBlob) \in DOMAIN objects

\* C20: a command that has reported that there is no repository, that the
\* path to stage does not exist or is a directory, or that there is nothing
\* to commit ends with a status other than zero, and a command that has done
\* its work ends with zero
C20_ExitStatus ==
    /\ last.out \in {"not_repo", "no_match", "is_dir", "nothing_to_commit"}
       => last.exit # 0
    /\ last.out \in {"initialized", "reinitialized", "added", "committed",
                     "done", "no_commits", "changes", "clean"}
       => last.exit = 0

\* 'refs/heads/master', written out
MasterPath ==
    <<"r", "e", "f", "s", "/", "h", "e", "a", "d", "s", "/",
      "m", "a", "s", "t", "e", "r">>

\* C21: from init until the first successful commit the ref HEAD names does
\* not exist and _get_current_commit() is None; when a commit has succeeded
\* it is the id of the commit object that commit stored, and whenever
\* there is a current commit it is an id of 40 characters of an object of
\* kind commit of the store
C21_CurrentCommit ==
    /\ (minigit_dir /\ CommitObjects(objects) = {})
       => /\ MasterPath \notin DOMAIN refs
          /\ GetCurrentCommit(head_file, refs) = None
    /\ (last.op = "commit" /\ last.out = "committed")
       => GetCurrentCommit(head_file, refs) = Some(last.sha)
    /\ CommitObjects(objects) # {}
       => LET current == GetCurrentCommit(head_file, refs)
          IN  /\ ~current.is_none
              /\ StrLen(current.val) = 40
              /\ current.val \in DOMAIN objects
              /\ ReadObject(objects, current.val).status = "ok"
              /\ ReadObject(objects, current.val).type
                    = <<"c", "o", "m", "m", "i", "t">>

\* status has run after the second commit: the current commit is the one
\* stored last
C21_Witness ==
    /\ last.op = "status"
    /\ Cardinality(CommitObjects(objects)) = 2
    /\ Truthy(last.parent)
    /\ last.parent = GetCurrentCommit(head_file, refs)
    /\ ParentsIn(objects, last.parent.val) # {}

\* C22: once init has run HEAD exists and holds 'ref: refs/heads/master',
\* and no command other than init writes HEAD
C22_HeadSymbolic ==
    /\ [](minigit_dir
          => head_file = <<RefPrefix \o MasterPath \o <<"LF">>>>)
    /\ [][head_file' # head_file
          => (last'.op = "init" /\ last'.out = "initialized")]_vars

\* log has printed the history of two commits, HEAD being the symbolic ref
C22_Witness ==
    /\ last.op = "log"
    /\ last.out = "done"
    /\ Len(last.entries) = 2
    /\ head_file # <<>>
    /\ StartsWith(head_file[1], RefPrefix)
    /\ Drop(Strip(head_file[1]), 5) = MasterPath

\* the lines of the tree object sha of the store
TreeLinesIn(objs, sha) == Split(Utf8Decode(ReadObject(objs, sha).data), "LF")

\* the path of a line of a tree payload: what follows its first tab
PathOfLine(line) == Drop(line, IndexOf(line, "TAB", 1))

\* C23: the tree a successful commit stores has one line per entry of the
\* index, '100644 blob <id>\t<path>' with the id the index held for the
\* path, the lines being in ascending order of path; the commit object
\* names that tree
C23_TreeEntries ==
    [][CommittedStep =>
        LET index == ReadIndex(index_file)
            tree == ReadObject(objects', last'.tree_sha)
            lines == TreeLinesIn(objects', last'.tree_sha)
        IN  /\ tree.status = "ok"
            /\ tree.type = <<"t", "r", "e", "e">>
            /\ TreesOf(ReadObject(objects', last'.sha).data) = {last'.tree_sha}
            /\ Len(lines) = Len(index)
            /\ \A i \in 1..Len(lines) :
                  \E k \in 1..Len(index) :
                     lines[i] = <<"1", "0", "0", "6", "4", "4", "SP",
                                  "b", "l", "o", "b", "SP">>
                                \o index[k][2] \o <<"TAB">> \o index[k][1]
            /\ {PathOfLine(lines[i]) : i \in 1..Len(lines)} = KeySet(index)
            /\ \A i \in 1..(Len(lines) - 1) :
                  StrLess(PathOfLine(lines[i]), PathOfLine(lines[i + 1]))]_vars

\* commit has stored the tree of an index staged in descending order of
\* path: the tree lists PathA before PathB
C23_Witness ==
    /\ last.op = "commit"
    /\ last.out = "committed"
    /\ Keys(last.index) = <<PathB, PathA>>
    /\ Len(TreeLinesIn(objects, last.tree_sha)) = 2
    /\ PathOfLine(TreeLinesIn(objects, last.tree_sha)[1]) = PathA

\* C24: the payload of the commit object a commit stores is the tree line,
\* the parent line when there was a current commit and no parent line
\* otherwise, the author line and the committer line with the one identity
\* and the one timestamp, an empty line, and the message as it was given;
\* the lines of the message are no header lines, and read back the payload
\* gives the tree and the parent of its header
C24_PayloadShape ==
    [][CommittedStep =>
        LET before == GetCurrentCommit(head_file, refs)
            obj == ReadObject(objects', last'.sha)
            stamp == <<"U", "s", "e", "r", "SP", "<", "u", "s", "e", "r", "@",
                       "e", "x", "a", "m", "p", "l", "e", ".", "c", "o", "m",
                       ">", "SP">> \o Decimal(last'.timestamp)
            header ==
                <<TreeKw \o last'.tree_sha>>
                \o (IF before.is_none THEN <<>> ELSE <<ParentKw \o before.val>>)
                \o <<AuthorKw \o stamp, CommitterKw \o stamp>>
            read == ParseCommit(obj.data)
        IN  /\ obj.status = "ok"
            /\ HeaderLines(obj.data) = header
            /\ ParentLineCount(obj.data) <= 1
            /\ Utf8Decode(obj.data)
                  = Join(<<"LF">>, header) \o <<"LF", "LF">> \o last'.message
            /\ ~read.raised
            /\ read.tree = Some(last'.tree_sha)
            /\ read.parent = before
            /\ read.timestamp = last'.timestamp
            /\ read.message = Strip(last'.message)]_vars

\* a second commit has stored a message that holds an empty line and lines
\* that read as a parent line and a tree line
C24_Witness ==
    /\ last.op = "commit"
    /\ last.out = "committed"
    /\ Truthy(last.parent)
    /\ \E i \in 1..Len(last.message) :
          /\ last.message[i] = "LF"
          /\ i < Len(last.message)
          /\ last.message[i + 1] = "LF"
    /\ StartsWith(Drop(last.message, 1), ParentKw)
    /\ ParentsIn(objects, last.sha) = {last.parent.val}

C26_TruncatedHistory ==
    (last.op = "log" /\ Truthy(GetCurrentCommit(head_file, refs)))
    => LET current == GetCurrentCommit(head_file, refs).val
           e == last.entries
           n == Len(e)
       IN  /\ last.out = "done"
           /\ (current \notin CommitObjects(objects)) => n = 0
           /\ (current \in CommitObjects(objects)) => (n >= 1 /\ e[1].sha = current)
           /\ \A i \in 1..n :
                 /\ e[i].sha \in CommitObjects(objects)
                 /\ IF i < n
                    THEN ParentsIn(objects, e[i].sha) = {e[i + 1].sha}
                    ELSE ParentsIn(objects, e[i].sha)
                            \cap CommitObjects(objects) = {}

\* log has printed one commit and ended at its parent, whose file is gone
C26_Witness ==
    /\ last.op = "log"
    /\ last.out = "done"
    /\ Len(last.entries) = 1
    /\ Truthy(last.entries[1].parent)
    /\ last.entries[1].parent.val \notin DOMAIN objects

\* the id the line of path filepath of the tree object sha gives
TreeIdOf(objs, sha, filepath) ==
    LET lines == TreeLinesIn(objs, sha)
        line == lines[CHOOSE i \in 1..Len(lines) : PathOfLine(lines[i]) = filepath]
    IN  SubSeq(line, 13, IndexOf(line, "TAB", 1) - 1)

\* C27: add stores the bytes the file holds when add runs and puts the id of
\* that blob in the index; a write of the file afterwards changes neither
\* the index nor the store; and the tree commit stores names, for each
\* path, the id the index holds, whatever the file holds when commit runs
C27_BlobAtStagingTime ==
    [][/\ (last'.op = "add" /\ last'.out = "added")
          => LET filepath == last'.filepath
                 sha == DictGet(ReadIndex(index_file'), filepath)
             IN  /\ ReadObject(objects', sha).status = "ok"
                 /\ ReadObject(objects', sha).type = <<"b", "l", "o", "b">>
                 /\ ReadObject(objects', sha).data = worktree[filepath].data
       /\ (last'.op = "write")
          => (index_file' = index_file /\ objects' = objects)
       /\ CommittedStep
          => \A filepath \in KeySet(ReadIndex(index_file)) :
                TreeIdOf(objects', last'.tree_sha, filepath)
                   = DictGet(ReadIndex(index_file), filepath)]_vars

\* commit has run after the file of a staged path was written again: the
\* tree names the blob of the bytes add read, which are not those the file
\* holds
C27_Witness ==
    /\ last.op = "commit"
    /\ last.out = "committed"
    /\ \E filepath \in KeySet(last.index) :
          LET sha == TreeIdOf(objects, last.tree_sha, filepath)
          IN  /\ sha = DictGet(last.index, filepath)
              /\ ReadObject(objects, sha).status = "ok"
              /\ ReadObject(objects, sha).data # worktree[filepath].data
              /\ HashObjectSha(worktree[filepath].data, KindBlob) # sha

\* commit of process p has read the index and has not stored the commit
\* object
BuildingTree(p) ==
    /\ running[p].cmd.op = "commit"
    /\ running[p].pc \in {"store_tree", "read_parent"}

\* C28: from the read of the index to the store of the commit object,
\* commit changes nothing of the repository but the object store, to which
\* it adds the tree object of the entries read, and no other object; the
\* index, the ref and HEAD stay as they are
C28_TreeBuildFrame ==
    [][/\ (At("p", "idle") /\ running'["p"].cmd.op = "commit")
          => (objects' = objects /\ index_file' = index_file
              /\ refs' = refs /\ head_file' = head_file)
       /\ BuildingTree("p")
          => LET cmd == running["p"].cmd
                 new == DOMAIN objects' \ DOMAIN objects
             IN  /\ index_file' = index_file
                 /\ refs' = refs
                 /\ head_file' = head_file
                 /\ dirs' = dirs
                 /\ \A sha \in DOMAIN objects :
                       sha \in DOMAIN objects' /\ objects'[sha] = objects[sha]
                 /\ Cardinality(new) <= 1
                 /\ \A sha \in new :
                       /\ At("p", "store_tree")
                       /\ running'["p"].cmd.tree_sha = sha
                       /\ ReadObject(objects', sha).type = <<"t", "r", "e", "e">>
                       /\ TreePathsIn(objects', sha) = KeySet(cmd.index)
                 /\ (At("p", "store_tree") /\ running'["p"].pc = "read_parent")
                    => running'["p"].cmd.tree_sha \in DOMAIN objects'
                       /\ ReadObject(objects', running'["p"].cmd.tree_sha).type
                             = <<"t", "r", "e", "e">>]_vars

\* commit has stored a tree that the store did not hold, a commit having
\* been made before, and has read the parent
C28_Witness ==
    /\ At("p", "store_commit")
    /\ Truthy(running["p"].cmd.parent)
    /\ running["p"].cmd.tree_sha \in DOMAIN objects
    /\ Len(running["p"].cmd.index) = 2
    /\ ReadIndex(index_file) = running["p"].cmd.index
    /\ GetCurrentCommit(head_file, refs) = running["p"].cmd.parent
    /\ \A sha \in CommitObjects(objects) :
          TreesOf(ReadObject(objects, sha).data) # {running["p"].cmd.tree_sha}

\* the objects of kind obj_type of the store
ObjectsOfKind(objs, obj_type) ==
    {sha \in DOMAIN objs : ReadObject(objs, sha).status = "ok"
                           /\ ReadObject(objs, sha).type = obj_type}

\* C29: in every state, those where add or commit has ended by a crash
\* included, each id of the index is that of a stored blob, the ref file,
\* when there is one, holds the id of a stored commit, and the tree line
\* and the parent line of every stored commit hold the ids of a stored tree
\* and of a stored commit
C29_ReferentialIntegrity ==
    /\ index_file # <<>>
    /\ LET index == ReadIndex(index_file)
       IN  \A i \in 1..Len(index) :
              index[i][2] \in ObjectsOfKind(objects, <<"b", "l", "o", "b">>)
    /\ \A ref_path \in DOMAIN refs :
          Strip(refs[ref_path])
             \in ObjectsOfKind(objects, <<"c", "o", "m", "m", "i", "t">>)
    /\ \A sha \in ObjectsOfKind(objects, <<"c", "o", "m", "m", "i", "t">>) :
          LET data == ReadObject(objects, sha).data
          IN  /\ Cardinality(TreesOf(data)) = 1
              /\ TreesOf(data) \subseteq ObjectsOfKind(objects, <<"t", "r", "e", "e">>)
              /\ ParentsOf(data)
                    \subseteq ObjectsOfKind(objects, <<"c", "o", "m", "m", "i", "t">>)

\* commit has ended by a crash after it stored a commit object with a
\* parent and before it wrote the ref: the ref names the parent
C29_Witness ==
    /\ last.op = "commit"
    /\ last.out = "crashed"
    /\ Truthy(last.parent)
    /\ last.sha \in CommitObjects(objects)
    /\ GetCurrentCommit(head_file, refs) = last.parent
    /\ ReadIndex(index_file) = last.index
    /\ last.index # <<>>

\* the path -> blob-id pairs of an index
Items(index) == {index[i] : i \in 1..Len(index)}

\* C30: two indexes that differ in a path -> blob-id pair, whatever the
\* characters of their paths, are given different tree ids
C30_TreeIdentifiesIndex ==
    \A i, j \in 1..Len(last.entries) :
        Items(last.entries[i].index) # Items(last.entries[j].index)
            => last.entries[i].tree_sha # last.entries[j].tree_sha

\* the adds of both processes have stored their blobs and no add is running
BothAddsFinished ==
    /\ \A p \in Procs : At(p, "idle")
    /\ HashObjectSha(StepTree[PathA].data, KindBlob) \in DOMAIN objects
    /\ HashObjectSha(StepTree[PathB].data, KindBlob) \in DOMAIN objects

\* C31: once the add of one process and the add of the other, given
\* different paths, have both finished, the index holds the entries of both
C31_BothEntriesPresent ==
    BothAddsFinished =>
        /\ DictHas(ReadIndex(index_file), PathA)
        /\ DictHas(ReadIndex(index_file), PathB)

\* C31 as the code has it: an add that has finished leaves in the index the
\* entries it read with its own entry set, so that once both adds have
\* finished the index holds the entry of the add that wrote last, and the
\* entry of the other only when the last writer had read it
C31_LastWriterWins ==
    (last.op = "add" /\ last.out = "added") =>
        /\ Items(ReadIndex(index_file)) =
              {item \in Items(last.index) : item[1] # last.filepath}
                 \cup {<<last.filepath, last.sha>>}
        /\ \A filepath \in FilePaths :
              (BothAddsFinished /\ ~DictHas(ReadIndex(index_file), filepath))
                 => ~DictHas(last.index, filepath)

\* both adds have finished and the entry of the add that wrote first is gone
C31_Witness ==
    /\ BothAddsFinished
    /\ last.op = "add"
    /\ last.out = "added"
    /\ \E filepath \in FilePaths :
          /\ filepath # last.filepath
          /\ ~DictHas(ReadIndex(index_file), filepath)

\* C32: a run of log or of status, in whatever state, leaves HEAD, the ref
\* files, the index file and the object store as they were, and makes no
\* directory
C32_ReadOnly ==
    [][last'.op \in {"log", "status"}
          => /\ head_file' = head_file
             /\ refs' = refs
             /\ index_file' = index_file
             /\ objects' = objects
             /\ minigit_dir' = minigit_dir
             /\ dirs' = dirs]_vars

\* status has listed staged paths, in another order than the index holds
\* them, in a repository that has a commit
C32_Witness ==
    /\ last.op = "status"
    /\ last.out = "changes"
    /\ Truthy(last.parent)
    /\ last.entries # Keys(ReadIndex(index_file))
    /\ objects # <<>>

\* C33: the index holds only paths that add has staged since the last
\* successful commit: a successful commit leaves it empty, and any other
\* command leaves it with the paths it had and, after an add that staged,
\* the path of that add; the tree a successful commit stores has the paths
\* of the index and no other, so that a path of the tree of an earlier
\* commit that no add has staged since is not in it
C33_TreeOfStagedSince ==
    [][/\ CommittedStep =>
             /\ TreePathsIn(objects', last'.tree_sha) = KeySet(ReadIndex(index_file))
             /\ ReadIndex(index_file') = <<>>
       /\ ~CommittedStep =>
             KeySet(ReadIndex(index_file'))
                \subseteq KeySet(ReadIndex(index_file))
                          \cup (IF last'.op = "add" /\ last'.out = "added"
                                THEN {last'.filepath} ELSE {})]_vars

\* a second commit has stored a tree that lacks a path of the tree of its
\* parent
C33_Witness ==
    /\ last.op = "commit"
    /\ last.out = "committed"
    /\ Truthy(last.parent)
    /\ \E tree_sha \in TreesOf(ReadObject(objects, last.parent.val).data) :
          TreePathsIn(objects, tree_sha) \ TreePathsIn(objects, last.tree_sha) # {}

\* C34: whenever the repository directory exists and no init is running, be
\* it that init has returned or that it has ended by a crash, the objects
\* directory, refs/heads, the symbolic HEAD and the index file exist
C34_InitAllOrNothing ==
    (minigit_dir /\ \A p \in Procs : running[p].cmd.op # "init") =>
        /\ {"objects", "refs/heads"} \subseteq dirs
        /\ head_file = <<HeadText>>
        /\ index_file # <<>>

=============================================================================
